---- MODULE Spec2Model ----
(***************************************************************************)
(* Model of the dual-agent Q&A service: the /run-session endpoint          *)
(* (app/main.py), its request schema (app/schemas.py) and the session      *)
(* orchestrator with its two agents (app/agents.py).                       *)
(*                                                                         *)
(* Text (a subject, a completion, a question, an answer) is a sequence of  *)
(* characters, so that str.strip() and the isalnum() filter are computed   *)
(* and not assumed.  A session blocks at every external completion call;   *)
(* the model has one action per stretch of code between two such calls.    *)
(***************************************************************************)
EXTENDS Integers, Sequences, FiniteSets, TLC

\* ------------------------------------------------------------------ bounds

\* Most whitespace characters the environment puts before, and after, a text.
MaxPad == 1

\* Largest in-range num_pairs a client sends (the schema allows up to 50).
MaxPairs == 5

\* ------------------------------------------------------- program constants

\* schemas.py: num_pairs = Field(default=10, ge=1, le=50)
NumPairsGe == 1
NumPairsLe == 50

\* schemas.py: subject = Field(..., min_length=1)
SubjectMinLength == 1

\* agents.py: self.question_history[-3:]
HistoryWindow == 3

\* ------------------------------------------------------------------- text

\* Python's None where a text is expected, and where an object is expected.
None == <<"None">>

Nil == [nil |-> TRUE]

\* k spaces.
Pad(k) == [j \in 1..k |-> " "]

\* The texts of cores with up to MaxPad spaces before and after.
Padded(cores) == {Pad(a) \o c \o Pad(b) : a \in 0..MaxPad, b \in 0..MaxPad, c \in cores}

isspace(c) == c = " "

isalnum(c) == c = "x"

RECURSIVE lstrip(_)
lstrip(t) == IF t # <<>> /\ isspace(Head(t)) THEN lstrip(Tail(t)) ELSE t

RECURSIVE rstrip(_)
rstrip(t) ==
    IF t # <<>> /\ isspace(t[Len(t)]) THEN rstrip(SubSeq(t, 1, Len(t) - 1)) ELSE t

\* str.strip(): leading and trailing whitespace removed.
strip(t) == rstrip(lstrip(t))

\* main.py: "".join(c if c.isalnum() else "_" for c in request.subject)
safe_subject(t) == [k \in DOMAIN t |-> IF isalnum(t[k]) THEN t[k] ELSE "_"]

Max(a, b) == IF a >= b THEN a ELSE b

\* Python's seq[-n:]: the last n entries, or all of them when there are fewer.
LastN(h, n) == SubSeq(h, Max(Len(h) - n, 0) + 1, Len(h))

\* -------------------------------------------------------------- difficulty

\* The quotient taken over the total, without the - 1.
ProgressOverTotal(iteration, total_iterations) ==
    [num |-> iteration, den |-> Max(total_iterations, 1)]

\* agents.py: progress = iteration / max(total_iterations - 1, 1), kept as the
\* exact quotient num/den.
Progress(iteration, total_iterations) ==
    [num |-> iteration, den |-> Max(total_iterations - 1, 1)]

\* progress < c/100 for a two-decimal literal c/100.  The code compares the
\* double nearest to num/den with the double nearest to c/100; with den <= 49
\* the two reals differ by at least 1/4900 whenever they differ, and they are
\* never equal (100 does not divide den), so the doubles compare as the reals.
ProgressBelow(p, c) == 100 * p.num < c * p.den

\* The last two branches exchanged.
DifficultySwapped(iteration, total_iterations) ==
    LET progress == Progress(iteration, total_iterations)
    IN  IF ProgressBelow(progress, 33) THEN "easy"
        ELSE IF ProgressBelow(progress, 66) THEN "hard"
        ELSE "medium"

\* agents.py: the if / elif / else on progress.
Difficulty(iteration, total_iterations) ==
    LET progress == Progress(iteration, total_iterations)
    IN  IF ProgressBelow(progress, 33) THEN "easy"
        ELSE IF ProgressBelow(progress, 66) THEN "medium"
        ELSE "hard"

\* ------------------------------------------------------------------ schema

\* The field without its upper limit.
NumPairsNoLe(n) == n >= NumPairsGe

\* Field(ge=1, le=50) on num_pairs.
NumPairsOk(n) == n >= NumPairsGe /\ n <= NumPairsLe

\* Field(min_length=1), then the validator subject_not_empty.
SubjectOk(v) == Len(v) >= SubjectMinLength /\ strip(v) # <<>>

\* SessionRequest(**raw): the validated model, or Nil on a ValidationError.
\* The validator returns v.strip(), which becomes request.subject.
SessionRequest(raw) ==
    IF SubjectOk(raw.subject) /\ NumPairsOk(raw.num_pairs)
    THEN [subject |-> strip(raw.subject), num_pairs |-> raw.num_pairs]
    ELSE Nil

\* QAPair(**pair): Field(ge=1) on id.
QAPairOk(pair) == pair.id >= 1

\* SessionResponse(subject=..., num_pairs=len(pairs), pairs=pairs)
SessionResponse(subject, pairs) ==
    [subject |-> subject, num_pairs |-> Len(pairs), pairs |-> pairs]

\* ------------------------------------------------------------- environment

Sessions == {1, 2}

\* The subjects clients send: empty, blank, or a word, padded or not.
Subjects == Padded({<<>>, <<"x">>})

\* What clients send in the single-session specification: every subject with
\* num_pairs from 0 to MaxPairs, and 51.  (A body without num_pairs gets the
\* default 10, which is one of the in-range values.)
Requests ==
    [subject : Subjects, num_pairs : (0..MaxPairs) \cup {NumPairsLe + 1}]

\* os.getenv("OPENAI_API_KEY"): unset or empty, or a key.
ApiKeys == {"", "key"}

\* What client.chat.completions.create does: it raises, or it returns a
\* response with no choice, or with one choice whose content is None or text.
Responses(texts) ==
    {[kind |-> "raise"], [kind |-> "ok", choices |-> <<>>]}
    \cup {[kind |-> "ok", choices |-> <<[content |-> c]>>] : c \in {None} \cup texts}

\* The completions of a question prompt and of an answer prompt.
QuestionResponses == Responses(Padded({<<>>, <<"x">>, <<"x", "x">>}))

AnswerResponses == Responses(Padded({<<>>, <<"x">>}))

\* The smaller environment of the two-session specification.
ConcRequests == [subject : {<<" ">>, <<"x">>}, num_pairs : {0, 1, 2}]

ConcResponses == Responses({<<>>, <<"x">>})

\* response.choices[0].message.content.strip(): the text, or None when the
\* expression raises (the call raised, IndexError, AttributeError on None).
Completion(r) ==
    IF r.kind = "ok" /\ Len(r.choices) >= 1 /\ r.choices[1].content # None
    THEN strip(r.choices[1].content)
    ELSE None

\* ------------------------------------------------------------------- state

VARIABLES
    pc,                \* per session: "idle", "awaitQ", "awaitA" or "done"
    request,           \* per session: the validated SessionRequest (main.py:57)
    question_agent,    \* per session: its QuestionAgent, 0 before (agents.py:155)
    question_history,  \* per history list: its questions (agents.py:16)
    pairs,             \* per session: run_qa_session's pairs (agents.py:158)
    i,                 \* per session: the loop index (agents.py:162)
    question,          \* per session: run_qa_session's question (agents.py:165)
    call,              \* per session: the completion call it is blocked in
    http,              \* per session: the HTTP response sent (main.py:107-114)
    written,           \* per session: the result file written (main.py:102)
    log,               \* per session: its agent calls, returns and raises in order
    probe              \* the difficulty walk of SpecDifficulty

vars ==
    <<pc, request, question_agent, question_history, pairs, i, question, call,
      http, written, log, probe>>

\* The list as an attribute of the class: one list for all the agents.
HistoryOfClass(agent) == 1

\* QuestionAgent.__init__: self.question_history is an attribute of the
\* instance, so every agent has a list of its own.
HistoryOf(agent) == agent

\* run_qa_session: question_agent = QuestionAgent(api_key), a new object per
\* call of run_qa_session.
NewQuestionAgent(s) == s

\* The slice taken from the front: self.question_history[:3].
HistoryContextFirst(history) ==
    SubSeq(history, 1, IF Len(history) <= HistoryWindow THEN Len(history) ELSE HistoryWindow)

\* The previous questions generate_question puts in the prompt.
HistoryContext(history) == LastN(history, HistoryWindow)

\* The prompt of generate_question: its variable parts.
QuestionPrompt(subject, iteration, total_iterations, history) ==
    [difficulty |-> Difficulty(iteration, total_iterations),
     subject |-> subject,
     previous |-> HistoryContext(history)]

\* generate_question's completion call.
QuestionCall(subject, iteration, total_iterations, history) ==
    [agent |-> "question",
     prompt |-> QuestionPrompt(subject, iteration, total_iterations, history),
     temperature |-> "0.7", max_tokens |-> 200]

\* The prompt built without the question.
AnswerCallNoQuestion(q) ==
    [agent |-> "answer", prompt |-> [question |-> <<>>],
     temperature |-> "0.5", max_tokens |-> 500]

\* generate_answer's completion call.
AnswerCall(q) ==
    [agent |-> "answer", prompt |-> [question |-> q],
     temperature |-> "0.5", max_tokens |-> 500]

\* The question returned without being stored.
StoreNothing(history, q) == history

\* self.question_history.append(question)
StoreQuestion(history, q) == Append(history, q)

\* The id taken from the loop index as it is, without the + 1.
PairIdFromZero(idx, q, a) == [id |-> idx, question |-> q, answer |-> a]

\* pair = {"id": i + 1, "question": question, "answer": answer}
Pair(idx, q, a) == [id |-> idx + 1, question |-> q, answer |-> a]

\* One entry of a session's log.
Event(ev, agent, iteration, data) ==
    [ev |-> ev, agent |-> agent, iteration |-> iteration, data |-> data]

InitSessions ==
    /\ pc = [s \in Sessions |-> "idle"]
    /\ request = [s \in Sessions |-> Nil]
    /\ question_agent = [s \in Sessions |-> 0]
    /\ question_history = [c \in Sessions |-> <<>>]
    /\ pairs = [s \in Sessions |-> <<>>]
    /\ i = [s \in Sessions |-> 0]
    /\ question = [s \in Sessions |-> None]
    /\ call = [s \in Sessions |-> Nil]
    /\ http = [s \in Sessions |-> Nil]
    /\ written = [s \in Sessions |-> Nil]
    /\ log = [s \in Sessions |-> <<>>]

NoProbe == [total_iterations |-> 0, levels |-> <<>>]

Init == InitSessions /\ probe = NoProbe

\* ----------------------------------------------------------------- actions

\* main.py, run_session after run_qa_session has returned: the pairs become
\* QAPair models, the response is built, dumped to the result file and sent.
\* A QAPair that does not validate raises, which the last except turns into
\* a 500.  (The file name also carries a timestamp, left out here, and the
\* write is taken to succeed.)
Respond(s, subject, result) ==
    IF \A k \in DOMAIN result : QAPairOk(result[k])
    THEN /\ http' = [http EXCEPT ![s] =
                [status |-> 200, body |-> SessionResponse(subject, result)]]
         /\ written' = [written EXCEPT ![s] =
                [name |-> safe_subject(subject),
                 data |-> SessionResponse(subject, result)]]
    ELSE /\ http' = [http EXCEPT ![s] =
                [status |-> 500, detail |-> "An unexpected error occurred"]]
         /\ UNCHANGED written

\* agents.py, the head of "for i in range(num_pairs)" with loop index idx,
\* the pairs built so far and the agent's history: the next question call is
\* made, or the loop is over and run_qa_session returns the pairs.
LoopHead(s, req, idx, result, history, events) ==
    IF idx < req.num_pairs
    THEN /\ call' = [call EXCEPT ![s] =
                QuestionCall(req.subject, idx, req.num_pairs, history)]
         /\ log' = [log EXCEPT ![s] = Append(events,
                Event("call", "question", idx,
                      [prompt |-> QuestionPrompt(req.subject, idx, req.num_pairs, history),
                       pairs_len |-> Len(result)]))]
         /\ pc' = [pc EXCEPT ![s] = "awaitQ"]
         /\ UNCHANGED <<http, written>>
    ELSE /\ call' = [call EXCEPT ![s] = Nil]
         /\ log' = [log EXCEPT ![s] = events]
         /\ pc' = [pc EXCEPT ![s] = "done"]
         /\ Respond(s, req.subject, result)

\* The error swallowed in the loop and the pairs built so far returned.
ReturnPartial(s, detail) ==
    /\ pc' = [pc EXCEPT ![s] = "done"]
    /\ call' = [call EXCEPT ![s] = Nil]
    /\ http' = [http EXCEPT ![s] =
           [status |-> 200, body |-> SessionResponse(request[s].subject, pairs[s])]]
    /\ UNCHANGED <<i, written>>

\* A RuntimeError raised by an agent: run_qa_session logs it and re-raises
\* (agents.py, "except Exception ... raise"), run_session turns it into a 500
\* (main.py, "except RuntimeError").  Nothing is returned, nothing is written.
Propagate(s, detail) ==
    /\ pc' = [pc EXCEPT ![s] = "done"]
    /\ call' = [call EXCEPT ![s] = Nil]
    /\ http' = [http EXCEPT ![s] = [status |-> 500, detail |-> detail]]
    /\ UNCHANGED <<i, written>>

\* POST /run-session up to the first completion call: the body is validated
\* (422 on failure), the API key is read (500 when absent), run_qa_session
\* builds its agents and its empty list and enters the loop.
run_session(s, raw, api_key) ==
    /\ pc[s] = "idle"
    /\ LET req == SessionRequest(raw)
       IN  IF req = Nil
           THEN /\ pc' = [pc EXCEPT ![s] = "done"]
                /\ http' = [http EXCEPT ![s] = [status |-> 422, detail |-> "validation"]]
                /\ UNCHANGED <<request, question_agent, question_history, pairs,
                               call, written, log>>
           ELSE IF api_key = ""
           THEN /\ pc' = [pc EXCEPT ![s] = "done"]
                /\ request' = [request EXCEPT ![s] = req]
                /\ http' = [http EXCEPT ![s] =
                       [status |-> 500, detail |-> "OPENAI_API_KEY not configured"]]
                /\ UNCHANGED <<question_agent, question_history, pairs, call,
                               written, log>>
           ELSE /\ request' = [request EXCEPT ![s] = req]
                /\ question_agent' = [question_agent EXCEPT ![s] = NewQuestionAgent(s)]
                /\ question_history' =
                       [question_history EXCEPT ![HistoryOf(NewQuestionAgent(s))] = <<>>]
                /\ pairs' = [pairs EXCEPT ![s] = <<>>]
                /\ LoopHead(s, req, 0, <<>>, <<>>, log[s])
    /\ UNCHANGED <<i, question, probe>>

\* generate_question from the return of its completion call, then
\* generate_answer up to its own call: the content is stripped, stored in the
\* history and returned; any exception becomes a RuntimeError.
QuestionResponse(s, r) ==
    /\ pc[s] = "awaitQ"
    /\ LET q == Completion(r)
           cell == HistoryOf(question_agent[s])
       IN  IF q # None
           THEN /\ question_history' =
                       [question_history EXCEPT ![cell] = StoreQuestion(@, q)]
                /\ question' = [question EXCEPT ![s] = q]
                /\ call' = [call EXCEPT ![s] = AnswerCall(q)]
                /\ log' = [log EXCEPT ![s] =
                       @ \o <<Event("return", "question", i[s], q),
                              Event("call", "answer", i[s], AnswerCall(q).prompt)>>]
                /\ pc' = [pc EXCEPT ![s] = "awaitA"]
                /\ UNCHANGED <<i, http, written>>
           ELSE /\ log' = [log EXCEPT ![s] =
                       Append(@, Event("raise", "question", i[s], None))]
                /\ Propagate(s, "Failed to generate question")
                /\ UNCHANGED <<question_history, question>>
    /\ UNCHANGED <<request, question_agent, pairs, probe>>

\* generate_answer from the return of its completion call, then the rest of
\* the iteration: the pair is appended and the loop goes on (LoopHead).
AnswerResponse(s, r) ==
    /\ pc[s] = "awaitA"
    /\ LET a == Completion(r)
       IN  IF a # None
           THEN /\ pairs' = [pairs EXCEPT ![s] = Append(@, Pair(i[s], question[s], a))]
                /\ i' = [i EXCEPT ![s] = @ + 1]
                /\ LoopHead(s, request[s], i[s] + 1,
                            Append(pairs[s], Pair(i[s], question[s], a)),
                            question_history[HistoryOf(question_agent[s])],
                            Append(log[s], Event("return", "answer", i[s], a)))
           ELSE /\ log' = [log EXCEPT ![s] =
                       Append(@, Event("raise", "answer", i[s], None))]
                /\ Propagate(s, "Failed to generate answer")
                /\ UNCHANGED pairs
    /\ UNCHANGED <<request, question_agent, question_history, question, probe>>

\* One client, one session.
Next ==
    \/ \E raw \in Requests, k \in ApiKeys : run_session(1, raw, k)
    \/ \E r \in QuestionResponses : QuestionResponse(1, r)
    \/ \E r \in AnswerResponses : AnswerResponse(1, r)

Spec == Init /\ [][Next]_vars

\* Two clients at once.  The handler is a coroutine that never awaits, so one
\* server process runs its sessions one after the other; sessions overlap
\* when the server runs several workers or threads.  Every interleaving at the
\* completion calls is allowed here, which covers both.
NextConc ==
    \/ \E s \in Sessions, raw \in ConcRequests, k \in ApiKeys : run_session(s, raw, k)
    \/ \E s \in Sessions, r \in ConcResponses : QuestionResponse(s, r)
    \/ \E s \in Sessions, r \in ConcResponses : AnswerResponse(s, r)

SpecConc == Init /\ [][NextConc]_vars

\* The difficulty of iteration 0, 1, ... of a session of total_iterations
\* pairs, for every total the schema allows.
InitDifficulty ==
    /\ InitSessions
    /\ probe \in [total_iterations : NumPairsGe..NumPairsLe, levels : {<<>>}]

DifficultyStep ==
    /\ Len(probe.levels) < probe.total_iterations
    /\ probe' = [probe EXCEPT
           !.levels = Append(@, Difficulty(Len(@), probe.total_iterations))]
    /\ UNCHANGED <<pc, request, question_agent, question_history, pairs, i,
                   question, call, http, written, log>>

SpecDifficulty == InitDifficulty /\ [][DifficultyStep]_vars

\* ------------------------------------------------------------------ claims

\* The texts an agent returned to session s among the first n entries of its
\* log, in the order they were returned.
ReturnedBefore(s, agent, n) ==
    LET hits == SelectSeq(SubSeq(log[s], 1, n),
                          LAMBDA e : e.ev = "return" /\ e.agent = agent)
    IN  [k \in DOMAIN hits |-> hits[k].data]

Returned(s, agent) == ReturnedBefore(s, agent, Len(log[s]))

\* The log entries of session s that are calls of an agent in an iteration.
CallsOf(s, agent, iteration) ==
    {p \in DOMAIN log[s] : /\ log[s][p].ev = "call"
                           /\ log[s][p].agent = agent
                           /\ log[s][p].iteration = iteration}

\* Session s is over and each of its 2N completion calls has returned a text.
AllSucceeded(s) ==
    /\ pc[s] = "done"
    /\ request[s] # Nil
    /\ question_agent[s] # 0
    /\ Len(Returned(s, "question")) = request[s].num_pairs
    /\ Len(Returned(s, "answer")) = request[s].num_pairs

\* C1: a session of N pairs in which every question call and every answer
\* call succeeds answers 200 with exactly N pairs, pair k carrying id k and
\* the k-th question and the k-th answer that were generated, and with
\* num_pairs equal to the length of pairs.
C1_SuccessfulSessionIds ==
    \A s \in Sessions :
        AllSucceeded(s) =>
            /\ http[s] # Nil
            /\ http[s].status = 200
            /\ http[s].body.num_pairs = Len(http[s].body.pairs)
            /\ Len(http[s].body.pairs) = request[s].num_pairs
            /\ \A k \in DOMAIN http[s].body.pairs :
                   http[s].body.pairs[k] =
                       [id |-> k,
                        question |-> Returned(s, "question")[k],
                        answer |-> Returned(s, "answer")[k]]

C1_Witness ==
    \E s \in Sessions :
        /\ AllSucceeded(s)
        /\ request[s].num_pairs >= 3
        /\ http[s].status = 200
        /\ http[s].body.pairs[1].question # http[s].body.pairs[3].question

\* The log of session s ends with a raise of the agent, in iteration k.
FailedIn(s, agent, k) ==
    /\ log[s] # <<>>
    /\ log[s][Len(log[s])] = Event("raise", agent, k, None)

\* C2: when generate_question fails in iteration k the session is over at
\* once with an error: the raise is the last thing the session did, the
\* failing call was made once, no call is pending, the endpoint answers 500
\* with no pairs and writes no file, although k pairs had been built.
C2_QuestionFailureAborts ==
    \A s \in Sessions :
        \A p \in DOMAIN log[s] :
            (log[s][p].ev = "raise" /\ log[s][p].agent = "question") =>
                LET k == log[s][p].iteration
                IN  /\ p = Len(log[s])
                    /\ Cardinality(CallsOf(s, "question", k)) = 1
                    /\ CallsOf(s, "answer", k) = {}
                    /\ pc[s] = "done"
                    /\ call[s] = Nil
                    /\ http[s] = [status |-> 500, detail |-> "Failed to generate question"]
                    /\ written[s] = Nil
                    /\ Len(pairs[s]) = k

C2_Witness ==
    \E s \in Sessions :
        /\ FailedIn(s, "question", 2)
        /\ Len(pairs[s]) = 2
        /\ http[s].status = 500

\* C3: when generate_answer fails for the question of iteration k, the
\* agent's history holds k+1 questions, the last one being that question,
\* the pairs list holds k pairs, none of them for that question, and the
\* session is over with the error.
C3_AnswerFailureKeepsQuestion ==
    \A s \in Sessions :
        \A p \in DOMAIN log[s] :
            (log[s][p].ev = "raise" /\ log[s][p].agent = "answer") =>
                LET k == log[s][p].iteration
                    history == question_history[HistoryOf(question_agent[s])]
                IN  /\ p = Len(log[s])
                    /\ Len(history) = k + 1
                    /\ history[k + 1] = Returned(s, "question")[k + 1]
                    /\ log[s][p - 1] = Event("call", "answer", k, [question |-> history[k + 1]])
                    /\ Len(pairs[s]) = k
                    /\ \A j \in DOMAIN pairs[s] : pairs[s][j].id # k + 1
                    /\ pc[s] = "done"
                    /\ http[s] = [status |-> 500, detail |-> "Failed to generate answer"]

C3_Witness ==
    \E s \in Sessions :
        /\ FailedIn(s, "answer", 1)
        /\ Len(question_history[HistoryOf(question_agent[s])]) = 2
        /\ Len(pairs[s]) = 1
        /\ question_history[HistoryOf(question_agent[s])][2] # pairs[s][1].question

\* A completion the claim calls a failure: the call raised, or it brought no
\* usable content (no choice, no content, or content that is empty or blank).
Unusable(r) ==
    \/ r.kind = "raise"
    \/ r.choices = <<>>
    \/ r.choices[1].content = None
    \/ \A k \in DOMAIN r.choices[1].content : r.choices[1].content[k] = " "

\* No pair the endpoint returned to the client of session s has an empty
\* question or an empty answer.
NoEmptyTextReturned(s) ==
    (http[s] # Nil /\ http[s].status = 200) =>
        \A k \in DOMAIN http[s].body.pairs :
            /\ http[s].body.pairs[k].question # <<>>
            /\ http[s].body.pairs[k].answer # <<>>

\* C4: generate_question fails, and appends nothing to the history, whenever
\* its completion call fails or brings no usable content; generate_answer
\* fails under the same conditions; so no returned pair has an empty question
\* or an empty answer.
C4_UnusableContentFails ==
    [][\A s \in Sessions :
        /\ \A r \in QuestionResponses :
               (Unusable(r) /\ QuestionResponse(s, r)) =>
                   /\ http'[s] = [status |-> 500, detail |-> "Failed to generate question"]
                   /\ question_history' = question_history
        /\ \A r \in AnswerResponses :
               (Unusable(r) /\ AnswerResponse(s, r)) =>
                   /\ http'[s] = [status |-> 500, detail |-> "Failed to generate answer"]
                   /\ pairs' = pairs
        /\ NoEmptyTextReturned(s)']_vars

Rank(difficulty) ==
    CASE difficulty = "easy" -> 1
      [] difficulty = "medium" -> 2
      [] difficulty = "hard" -> 3

\* C5: for a fixed total the difficulty never goes down from one iteration to
\* the next in the order easy < medium < hard, and a session of one pair is
\* easy.
C5_DifficultyMonotonic ==
    /\ \A k \in 1..(Len(probe.levels) - 1) :
           Rank(probe.levels[k]) <= Rank(probe.levels[k + 1])
    /\ probe.total_iterations = 1 =>
           \A k \in DOMAIN probe.levels : probe.levels[k] = "easy"

C5_Witness ==
    /\ probe.total_iterations = 50
    /\ Len(probe.levels) = 50
    /\ {probe.levels[k] : k \in DOMAIN probe.levels} = {"easy", "medium", "hard"}

\* C10: with d = max(N - 1, 1), iteration i is easy iff 100 i < 33 d, medium
\* iff 33 d <= 100 i < 66 d and hard otherwise; a session of 3 pairs goes
\* easy, medium, hard.
C10_DifficultyThresholds ==
    /\ \A k \in DOMAIN probe.levels :
           LET idx == k - 1
               d == IF probe.total_iterations - 1 >= 1
                    THEN probe.total_iterations - 1 ELSE 1
           IN  /\ probe.levels[k] = "easy" <=> 100 * idx < 33 * d
               /\ probe.levels[k] = "medium" <=> (33 * d <= 100 * idx /\ 100 * idx < 66 * d)
               /\ probe.levels[k] = "hard" <=> 66 * d <= 100 * idx
    /\ (probe.total_iterations = 3 /\ Len(probe.levels) = 3) =>
           probe.levels = <<"easy", "medium", "hard">>

C10_Witness ==
    /\ probe.total_iterations = 3
    /\ probe.levels = <<"easy", "medium", "hard">>

\* The last n entries of a sequence of at least n entries.
Newest(seq, n) == [k \in 1..n |-> seq[Len(seq) - n + k]]

\* C6: the previous questions in the prompt of iteration i are min(i, 3) in
\* number, never more than 3, and are the min(i, 3) questions generated last
\* in the session, in the order they were generated.
C6_HistoryWindow ==
    \A s \in Sessions :
        \A p \in DOMAIN log[s] :
            (log[s][p].ev = "call" /\ log[s][p].agent = "question") =>
                LET idx == log[s][p].iteration
                    n == IF idx <= 3 THEN idx ELSE 3
                    asked == ReturnedBefore(s, "question", p - 1)
                    previous == log[s][p].data.prompt.previous
                IN  /\ Len(previous) = n
                    /\ Len(previous) <= 3
                    /\ Len(asked) = idx
                    /\ previous = Newest(asked, n)

C6_Witness ==
    \E s \in Sessions :
        /\ pc[s] = "awaitQ"
        /\ i[s] = 4
        /\ Len(call[s].prompt.previous) = 3
        /\ Returned(s, "question")[1] # Returned(s, "question")[4]
        /\ Returned(s, "question")[1] # Returned(s, "question")[2]

\* What the claim calls an invalid request.
Invalid(raw) ==
    \/ \A k \in DOMAIN raw.subject : raw.subject[k] = " "
    \/ raw.num_pairs < 1
    \/ raw.num_pairs > 50

\* The request of session s was rejected and nothing else happened for it.
Rejected(s) ==
    /\ pc[s] = "done"
    /\ http[s] # Nil
    /\ http[s].status = 422
    /\ request[s] = Nil
    /\ question_agent[s] = 0
    /\ call[s] = Nil
    /\ log[s] = <<>>
    /\ written[s] = Nil

\* C7: a request with an empty or blank subject, or with num_pairs outside
\* 1..50, is rejected with a validation failure; run_qa_session is not run
\* for it, then or later, so no completion call is made and no file written;
\* and any session that runs has a non-blank subject and 1..50 pairs.
C7_InvalidNeverOrchestrated ==
    [][\A s \in Sessions :
        /\ (pc[s] = "idle" /\ pc'[s] # "idle") =>
               \A raw \in Requests \cup ConcRequests, k \in ApiKeys :
                   (Invalid(raw) /\ run_session(s, raw, k)) => Rejected(s)'
        /\ Rejected(s) => Rejected(s)'
        /\ question_agent'[s] # 0 =>
               /\ request'[s].subject # <<>>
               /\ request'[s].subject[1] # " "
               /\ request'[s].num_pairs \in 1..50]_vars

C7_Witness ==
    \E s \in Sessions : Rejected(s)

\* C8: the calls of a session come strictly in the order Q0, A0, Q1, A1, ...:
\* entry 4i+1 of its log is the question call of iteration i, made with i
\* pairs built, entry 4i+2 its return, entry 4i+3 the answer call for exactly
\* the question returned, entry 4i+4 its return; a raise ends the log.
C8_StrictAlternation ==
    \A s \in Sessions :
        \A p \in DOMAIN log[s] :
            LET e == log[s][p]
                idx == (p - 1) \div 4
                phase == (p - 1) % 4
            IN  /\ e.iteration = idx
                /\ phase = 0 => /\ e.ev = "call" /\ e.agent = "question"
                                /\ e.data.pairs_len = idx
                /\ phase = 1 => /\ e.agent = "question"
                                /\ e.ev = "return" \/ (e.ev = "raise" /\ p = Len(log[s]))
                /\ phase = 2 => /\ e.ev = "call" /\ e.agent = "answer"
                                /\ log[s][p - 1].ev = "return"
                                /\ e.data = [question |-> log[s][p - 1].data]
                /\ phase = 3 => /\ e.agent = "answer"
                                /\ e.ev = "return" \/ (e.ev = "raise" /\ p = Len(log[s]))

C8_Witness ==
    \E s \in Sessions :
        /\ Len(log[s]) >= 9
        /\ \A p \in DOMAIN log[s] : log[s][p].ev # "raise"
        /\ log[s][2].data # log[s][6].data
        /\ log[s][7].data = [question |-> log[s][6].data]

\* C9: with sessions interleaved in any order, each session has an agent and
\* a history of its own: its history is the questions returned to it, the
\* previous questions in its prompts are its own last ones, and its pairs are
\* built from the texts returned to it, as when it runs alone.
C9_SessionsIsolated ==
    \A s \in Sessions :
        /\ \A u \in Sessions \ {s} :
               (question_agent[s] # 0 /\ question_agent[u] # 0) =>
                   /\ question_agent[s] # question_agent[u]
                   /\ HistoryOf(question_agent[s]) # HistoryOf(question_agent[u])
        /\ question_agent[s] # 0 =>
               question_history[HistoryOf(question_agent[s])] = Returned(s, "question")
        /\ \A p \in DOMAIN log[s] :
               (log[s][p].ev = "call" /\ log[s][p].agent = "question") =>
                   LET asked == ReturnedBefore(s, "question", p - 1)
                   IN  log[s][p].data.prompt.previous =
                           Newest(asked, IF Len(asked) <= 3 THEN Len(asked) ELSE 3)
        /\ Len(pairs[s]) = Len(Returned(s, "answer"))
        /\ \A k \in DOMAIN pairs[s] :
               pairs[s][k] = [id |-> k,
                              question |-> Returned(s, "question")[k],
                              answer |-> Returned(s, "answer")[k]]

C9_Witness ==
    \E s \in Sessions :
        \E u \in Sessions \ {s} :
            /\ pc[s] = "awaitQ" /\ i[s] = 1
            /\ pc[u] = "awaitA" /\ i[u] = 1
            /\ call[s].prompt.previous # <<question[u]>>
            /\ pairs[s][1].question # pairs[u][1].question

====
